---- MODULE Spec2Model ----
(***************************************************************************)
(* Flash-Sale-Service: the purchase path (handlers.PurchaseHandler against *)
(* the Redis coordinator and the PostgreSQL store), the sale scheduler and *)
(* the per-key rate limiter.                                               *)
(*                                                                         *)
(* Time is counted in quarter hours: a checkout session lives 1 unit       *)
(* (15 minutes), a sale window is 4 units (one hour).                      *)
(***************************************************************************)
EXTENDS Integers, FiniteSets, Sequences, TLC

(***************************************************************************)
(* Bounds of the model.                                                    *)
(***************************************************************************)
\* Q: items offered per sale (10,000 in the program, scaled down).
ItemsPerSale == 2
\* C: successful purchases allowed per user and sale (10 in the program).
UserLimit == 1
\* Users that ever check out.
MaxUsers == 2
\* Checkout codes that are ever minted.
MaxCodes == 2
\* POST /purchase requests that are ever received.
MaxReqs == 3

\* Scheduler instances that run against the same store.
MaxInstances == 2
\* Last instant of the scheduler's clock.
MaxClock == 8
\* How late, at most, a timer that is due is served.
MaxLate == 1
\* Sales that follow one another across a rollover.
MaxSales == 2
\* POST /purchase requests across a rollover.
MaxRolloverReqs == 2
\* Concurrent POST /purchase requests, each of its own user with its own
\* code, that race for the items of one sale.
MaxRaceReqs == 4

\* Clients (remote addresses) that send requests through the rate limiter.
MaxClients == 2
\* Last instant of the rate limiter's clock.
MaxTime == 5
\* The instants of the rate limiter's clock per second.
TicksPerSecond == 2
\* rate and burst of NewRateLimiter (100 and 200 in the program).
Rate == 1
Burst == 2

(***************************************************************************)
(* Program constants.                                                      *)
(***************************************************************************)
\* T_session: "Checkout sessions expire after 15 minutes".
SessionTTL == 1
\* W: time.Hour, the length of a sale window.
WindowLen == 4
\* 15 * time.Minute, the period of the cleanup ticker.
CleanupPeriod == 1

Users == 1..MaxUsers
Items == 1..ItemsPerSale
Codes == 1..MaxCodes
Reqs == 1..MaxReqs

\* r.URL.Query().Get("code") of a request without the parameter.
NoCode == 0
\* A code that the checkout service never issued.
UnknownCode == MaxCodes + 1
NoUser == 0
NoItem == 0
NoSession == [userID |-> NoUser, itemID |-> NoItem, ttl |-> 0]

\* The response bodies and purchase id the handler writes.
MsgMissing == "Missing checkout code"
MsgInvalid == "Invalid or expired checkout code"
MsgError == "Error processing purchase"
MsgSoldOut == "Item sold out"
MsgRecord == "Error recording purchase"
MsgSuccess == "Purchase completed successfully"
PlaceholderPurchaseID == "purchase_a1b2c3d4e5f6g7h8"

VARIABLES
    inventory,  \* CO: sale:{sale_id}:inventory of the running sale
    userCount,  \* CO: sale:{sale_id}:user:{user_id}:count
    sessions,   \* CO: checkout:{code}, each key with its remaining TTL
    minted,     \* CS: how many checkout codes have been issued
    purchases,  \* DS: the rows of table purchases
    req,        \* the POST /purchase requests: position and local variables
    clock,      \* the scheduler's clock, in quarter hours
    sales,      \* DS: the rows of table sales
    items,      \* DS: the sales whose Q rows of table items exist
    coSales,    \* CO: the sales whose inventory counter and active flag are set
    idSeq,      \* how many sale ids have been generated
    sched,      \* the scheduler instances: position and local variables
    counters,   \* CO across a rollover: the inventory counter of each sale
    roSessions, \* CO across a rollover: the checkout sessions
    roMinted,   \* across a rollover: how many codes checkout has issued
    roReq,      \* across a rollover: the POST /purchase requests
    rcInventory, \* CO in a race for the last items: the inventory counter
    rcSessions,  \* CO in a race for the last items: the checkout sessions
    rcReq,       \* in a race for the last items: the POST /purchase requests
    tokens,      \* RateLimiter.tokens: the tokens left per key
    lastRefill,  \* RateLimiter.lastRefill: the instant of the last refill per key
    now,         \* time.Now() of the rate limiter, in ticks
    granted,     \* per key, the calls of Allow answered true since the last refill
    lastCall     \* the client and the outcome of the last request

pvars == <<inventory, userCount, sessions, minted, purchases, req>>

svars == <<clock, sales, items, coSales, idSeq, sched>>

rvars == <<counters, roSessions, roMinted, roReq>>

cvars == <<rcInventory, rcSessions, rcReq>>

lvars == <<tokens, lastRefill, now, granted, lastCall>>

IdleReq ==
    [pc |-> "idle", checkoutCode |-> NoCode, userID |-> NoUser, itemID |-> NoItem,
     status |-> 0, body |-> "", purchaseID |-> ""]

(***************************************************************************)
(* Coordinator (package redis).                                            *)
(***************************************************************************)
\* redis.GetCheckoutSession: the session's user and item, or an error when
\* the key is missing (never set, or expired).  The handler answers a
\* coordinator that cannot be reached like a missing key, with the same
\* response and no effect, so that case is the one of a code not issued.
LookupSession(ss, code) ==
    IF code \notin DOMAIN ss \/ ss[code] = NoSession
    THEN [userID |-> NoUser, itemID |-> NoItem, err |-> TRUE]
    ELSE [userID |-> ss[code].userID, itemID |-> ss[code].itemID, err |-> FALSE]

GetCheckoutSession(code) == LookupSession(sessions, code)

\* The revert of the sold-out path applied to a counter that was not
\* decremented.
DecrementInventoryDoubleRevert(inv, itemID, coErr) ==
    IF coErr THEN [inventory |-> inv, decremented |-> FALSE, err |-> TRUE]
    ELSE IF inv > 0 THEN [inventory |-> inv - 1, decremented |-> TRUE, err |-> FALSE]
    ELSE [inventory |-> inv + 1, decremented |-> FALSE, err |-> FALSE]

\* The decrement without the revert of the sold-out path.
DecrementInventoryNoRevert(inv, itemID, coErr) ==
    IF coErr THEN [inventory |-> inv, decremented |-> FALSE, err |-> TRUE]
    ELSE [inventory |-> inv - 1, decremented |-> inv > 0, err |-> FALSE]

\* redis.DecrementInventory: decrement-if-positive in one coordinator step;
\* the counter after the call, whether it was decremented, and the error.
DecrementInventory(inv, itemID, coErr) ==
    IF coErr THEN [inventory |-> inv, decremented |-> FALSE, err |-> TRUE]
    ELSE IF inv > 0 THEN [inventory |-> inv - 1, decremented |-> TRUE, err |-> FALSE]
    ELSE [inventory |-> inv, decremented |-> FALSE, err |-> FALSE]

\* A quarter hour passes on the coordinator's clock: every key's remaining
\* TTL goes down, and a key whose TTL has run out is gone.
ExpireKeys(ss) ==
    [c \in Codes |-> IF ss[c] = NoSession \/ ss[c].ttl <= 1 THEN NoSession
                     ELSE [ss[c] EXCEPT !.ttl = @ - 1]]

(***************************************************************************)
(* Checkout Service: creates the sessions that Purchase redeems.           *)
(***************************************************************************)
\* The users and items the state mentions.  Nothing tells two users, or
\* two items, that have not been used yet apart: a checkout takes a used
\* one or the least unused one.
UsedUsers ==
    {sessions[c].userID : c \in Codes} \cup {req[r].userID : r \in Reqs}

UsedItems ==
    {sessions[c].itemID : c \in Codes} \cup {req[r].itemID : r \in Reqs}

Least(S) == CHOOSE x \in S : \A y \in S : x <= y

Canonical(x, used, all) ==
    x \in used \/ (all \ used # {} /\ x = Least(all \ used))

Checkout(u, i) ==
    /\ minted < MaxCodes
    /\ Canonical(u, UsedUsers, Users)
    /\ Canonical(i, UsedItems, Items)
    /\ userCount[u] < UserLimit
    /\ minted' = minted + 1
    /\ sessions' = [sessions EXCEPT ![minted + 1] =
                        [userID |-> u, itemID |-> i, ttl |-> SessionTTL]]
    /\ UNCHANGED <<svars, rvars, cvars, lvars, inventory, userCount, purchases, req>>

(***************************************************************************)
(* Purchase Service: handlers.PurchaseHandler.  One request runs in two    *)
(* steps, one per round trip to the coordinator: the session lookup and    *)
(* the inventory decrement.  Requests of different goroutines interleave   *)
(* between the steps.                                                      *)
(***************************************************************************)
\* if checkoutCode == ""
MissingCode(code) == code = NoCode

\* The statuses of net/http the handler answers with.
StatusOK == 200

StatusBadRequest == 400

StatusInternalServerError == 500

\* http.Error(w, "Item sold out", http.StatusConflict)
SoldOutStatusBadRequest == StatusBadRequest

SoldOutStatus == 409

\* if err != nil, after redis.GetCheckoutSession
SessionErrorIgnored(s) == FALSE

SessionErrorInverted(s) == ~s.err

SessionError(s) == s.err

\* if err != nil, after redis.DecrementInventory
DecrementError(d) == d.err

\* if !decremented
SoldOutIgnored(d) == FALSE

SoldOutInverted(d) == d.decremented

SoldOut(d) == ~d.decremented

\* recordPurchase: a placeholder that inserts nothing and returns a fixed id.
recordPurchase(db, userID, itemID) ==
    [db |-> db, purchaseID |-> PlaceholderPurchaseID, err |-> FALSE]

\* http.Error(w, body, status): the request is answered and ends.
HttpError(q, status, body) ==
    [q EXCEPT !.pc = "done", !.status = status, !.body = body]

\* Requests are taken from the pool in order.
NextRequest(r) ==
    /\ req[r].pc = "idle"
    /\ IF r = 1 THEN TRUE ELSE req[r - 1].pc # "idle"

\* The codes a request may carry: none, an issued one, or one that was
\* never issued.
RequestCodes == {NoCode, UnknownCode} \cup {c \in Codes : c <= minted}

\* The handler from the request to the return of redis.GetCheckoutSession:
\* request q with its code, and s what the lookup returned.
AfterLookup(q, s) ==
    IF MissingCode(q.checkoutCode) THEN HttpError(q, StatusBadRequest, MsgMissing)
    ELSE IF SessionError(s) THEN HttpError(q, StatusBadRequest, MsgInvalid)
    ELSE [q EXCEPT !.pc = "session", !.userID = s.userID, !.itemID = s.itemID]

\* The handler from the return of redis.DecrementInventory to the response:
\* d what the decrement returned, p what recordPurchase returns.
AfterDecrement(q, d, p) ==
    IF DecrementError(d) THEN HttpError(q, StatusInternalServerError, MsgError)
    ELSE IF SoldOut(d) THEN HttpError(q, SoldOutStatus, MsgSoldOut)
    ELSE IF p.err THEN HttpError(q, StatusInternalServerError, MsgRecord)
    ELSE [q EXCEPT !.pc = "done", !.status = StatusOK, !.body = MsgSuccess,
                   !.purchaseID = p.purchaseID]

PurchaseLookup(r, code) ==
    /\ NextRequest(r)
    /\ req' = [req EXCEPT ![r] =
          AfterLookup([@ EXCEPT !.checkoutCode = code], GetCheckoutSession(code))]
    /\ UNCHANGED <<svars, rvars, cvars, lvars, inventory, userCount, sessions, minted, purchases>>

\* The decrement, and what follows it without another round trip:
\* recordPurchase and the response.
PurchaseDecrement(r, coErr) ==
    /\ req[r].pc = "session"
    /\ LET d == DecrementInventory(inventory, req[r].itemID, coErr)
           p == recordPurchase(purchases, req[r].userID, req[r].itemID)
       IN  /\ inventory' = d.inventory
           /\ purchases' = IF DecrementError(d) \/ SoldOut(d) THEN purchases ELSE p.db
           /\ req' = [req EXCEPT ![r] = AfterDecrement(@, d, p)]
    /\ UNCHANGED <<svars, rvars, cvars, lvars, userCount, sessions, minted>>

\* A quarter hour passes.
Tick ==
    /\ sessions' = ExpireKeys(sessions)
    /\ UNCHANGED <<svars, rvars, cvars, lvars, inventory, userCount, minted, purchases, req>>

(***************************************************************************)
(* Durable Store (package database): table sales.                          *)
(***************************************************************************)
\* The unique index on sales(window_start) rejects a second row for a
\* window start; the store may also fail.
InsertSale(tbl, sale, dsErr) ==
    IF dsErr THEN [sales |-> tbl, err |-> "transient"]
    ELSE IF \E s \in tbl : s.startTime = sale.startTime
         THEN [sales |-> tbl, err |-> "conflict"]
         ELSE [sales |-> tbl \cup {sale}, err |-> ""]

\* database.GetActiveSale: the active sale of the window that holds t, or
\* none (saleID 0).
NoSale == [saleID |-> 0, startTime |-> 0, endTime |-> 0, totalItems |-> 0,
           status |-> ""]

GetActiveSale(tbl, t) ==
    LET live == {s \in tbl : s.status = "active" /\ s.startTime <= t /\ t < s.endTime}
    IN  IF live = {} THEN NoSale ELSE CHOOSE s \in live : TRUE

(***************************************************************************)
(* Sale Scheduler (package scheduler).  Scheduler.Start is the entry point *)
(* with the startup check and the aligned ticker; StartScheduler is the    *)
(* entry point main calls, with a ticker that starts when the server       *)
(* starts.                                                                 *)
(***************************************************************************)
Instances == 1..MaxInstances

OffSched ==
    [pc |-> "off", ret |-> "", timer |-> 0, cleanupTimer |-> 0, saleID |-> 0,
     startTime |-> 0, err |-> "", cleanupErr |-> "", cancelled |-> FALSE]

\* now.Truncate(time.Hour)
TruncateNone(t) == t

Truncate(t) == t - (t % WindowLen)

\* waitUntilNextHour: the instant of the next hour boundary.
NextHour(t) == Truncate(t) + WindowLen

\* models.Sale as createNewSale fills it.
NewSale(id, startTime) ==
    [saleID |-> id, startTime |-> startTime, endTime |-> startTime + WindowLen,
     totalItems |-> ItemsPerSale, status |-> "active"]

\* createNewSale returns err to its caller: Start gives up on a failed
\* initial sale and goes on to wait after a good one; the main loop logs the
\* error and runs on.
ReturnStopsLoop(q, err, t) ==
    IF q.ret = "start"
    THEN IF err # "" THEN [q EXCEPT !.pc = "stopped", !.err = err]
         ELSE [q EXCEPT !.pc = "wait", !.err = err, !.timer = NextHour(t)]
    ELSE IF err # "" THEN [q EXCEPT !.pc = "stopped", !.err = err]
         ELSE [q EXCEPT !.pc = "loop", !.err = err]

Return(q, err, t) ==
    IF q.ret = "start"
    THEN IF err # "" THEN [q EXCEPT !.pc = "stopped", !.err = err]
         ELSE [q EXCEPT !.pc = "wait", !.err = err, !.timer = NextHour(t)]
    ELSE [q EXCEPT !.pc = "loop", !.err = err]

\* The service instances start one after the other.
NextInstance(i) ==
    /\ sched[i].pc = "off"
    /\ IF i = 1 THEN TRUE ELSE sched[i - 1].pc # "off"

\* Scheduler.Start is called.
Start(i) ==
    /\ NextInstance(i)
    /\ sched' = [sched EXCEPT ![i].pc = "startup"]
    /\ UNCHANGED <<pvars, rvars, cvars, lvars, clock, sales, items, coSales, idSeq>>

\* Start: the check for an active sale.
StartCheck(i, dsErr) ==
    /\ sched[i].pc = "startup"
    /\ sched' = [sched EXCEPT ![i] =
          IF dsErr THEN [@ EXCEPT !.pc = "stopped", !.err = "transient"]
          ELSE IF GetActiveSale(sales, clock) = NoSale
               THEN [@ EXCEPT !.pc = "sale", !.ret = "start"]
               ELSE [@ EXCEPT !.pc = "wait", !.timer = NextHour(clock)]]
    /\ UNCHANGED <<pvars, rvars, cvars, lvars, clock, sales, items, coSales, idSeq>>

\* Scheduler.createNewSale: the sale id, the window, the row of table sales.
CreateSale(i, dsErr) ==
    /\ sched[i].pc = "sale"
    /\ LET startTime == Truncate(clock)
           res == InsertSale(sales, NewSale(idSeq + 1, startTime), dsErr)
           q == [sched[i] EXCEPT !.saleID = idSeq + 1, !.startTime = startTime]
       IN  /\ idSeq' = idSeq + 1
           /\ sales' = res.sales
           /\ sched' = [sched EXCEPT ![i] =
                IF res.err # "" THEN Return(q, res.err, clock)
                ELSE [q EXCEPT !.pc = "items"]]
    /\ UNCHANGED <<pvars, rvars, cvars, lvars, clock, items, coSales>>

\* Scheduler.createNewSale: generateItems and the bulk insert of the items.
CreateItems(i, dsErr) ==
    /\ sched[i].pc = "items"
    /\ items' = IF dsErr THEN items ELSE items \cup {sched[i].saleID}
    /\ sched' = [sched EXCEPT ![i] =
          IF dsErr THEN Return(@, "transient", clock) ELSE [@ EXCEPT !.pc = "redis"]]
    /\ UNCHANGED <<pvars, rvars, cvars, lvars, clock, sales, coSales, idSeq>>

\* Scheduler.createNewSale: redis.InitializeSale, then the return.
InitializeSale(i, coErr) ==
    /\ sched[i].pc = "redis"
    /\ coSales' = IF coErr THEN coSales ELSE coSales \cup {sched[i].saleID}
    /\ sched' = [sched EXCEPT ![i] =
          Return(@, IF coErr THEN "transient" ELSE "", clock)]
    /\ UNCHANGED <<pvars, rvars, cvars, lvars, clock, sales, items, idSeq>>

\* Start: the hour boundary is reached; the hourly ticker and the cleanup
\* ticker start now.
WaitDone(i) ==
    /\ sched[i].pc = "wait"
    /\ clock >= sched[i].timer
    /\ sched' = [sched EXCEPT ![i].pc = "loop", ![i].timer = clock + WindowLen,
                              ![i].cleanupTimer = clock + CleanupPeriod]
    /\ UNCHANGED <<pvars, rvars, cvars, lvars, clock, sales, items, coSales, idSeq>>

\* Start: case <-ticker.C
HourlyTick(i) ==
    /\ sched[i].pc = "loop"
    /\ clock >= sched[i].timer
    /\ sched' = [sched EXCEPT ![i].pc = "sale", ![i].ret = "loop",
                              ![i].timer = @ + WindowLen]
    /\ UNCHANGED <<pvars, rvars, cvars, lvars, clock, sales, items, coSales, idSeq>>

\* Start: case <-cleanupTicker.C, cleanupExpiredSales.  It sweeps the expired
\* checkout sessions of the coordinator, which the coordinator's TTL has
\* removed already, and touches no sale; Start logs its error and runs on.
CleanupTick(i, coErr) ==
    /\ sched[i].pc = "loop"
    /\ clock >= sched[i].cleanupTimer
    /\ sched' = [sched EXCEPT ![i].cleanupTimer = @ + CleanupPeriod,
                              ![i].cleanupErr = IF coErr THEN "transient" ELSE ""]
    /\ UNCHANGED <<pvars, rvars, cvars, lvars, clock, sales, items, coSales, idSeq>>

\* The caller of Start cancels the context it gave to Start.  Start looks
\* at the context in its two selects only, so a cancellation that arrives
\* while Start is inside a call is seen as one that arrives at the select
\* that follows the call.
Cancel(i) ==
    /\ sched[i].pc \in {"wait", "loop"}
    /\ ~sched[i].cancelled
    /\ sched' = [sched EXCEPT ![i].cancelled = TRUE]
    /\ UNCHANGED <<pvars, rvars, cvars, lvars, clock, sales, items, coSales, idSeq>>

\* Start: case <-ctx.Done() of the select of the wait for the first hour
\* boundary and of the select of the main loop: return ctx.Err().  The
\* locals of Start are gone; ret keeps the select Start returned from.
StopOnlyWhileWaiting(i) ==
    /\ sched[i].pc = "wait"
    /\ sched[i].cancelled
    /\ sched' = [sched EXCEPT ![i] =
          [OffSched EXCEPT !.pc = "stopped", !.err = "canceled",
                           !.ret = sched[i].pc, !.cancelled = TRUE]]
    /\ UNCHANGED <<pvars, rvars, cvars, lvars, clock, sales, items, coSales, idSeq>>

Stop(i) ==
    /\ sched[i].pc \in {"wait", "loop"}
    /\ sched[i].cancelled
    /\ sched' = [sched EXCEPT ![i] =
          [OffSched EXCEPT !.pc = "stopped", !.err = "canceled",
                           !.ret = sched[i].pc, !.cancelled = TRUE]]
    /\ UNCHANGED <<pvars, rvars, cvars, lvars, clock, sales, items, coSales, idSeq>>

\* StartScheduler is called: the ticker starts, the goroutine waits.
StartScheduler(i) ==
    /\ NextInstance(i)
    /\ sched' = [sched EXCEPT ![i].pc = "ticker", ![i].timer = clock + WindowLen]
    /\ UNCHANGED <<pvars, rvars, cvars, lvars, clock, sales, items, coSales, idSeq>>

\* StartScheduler: <-ticker.C, then createNewSale(db): the INSERT INTO sales
\* and generateItems, a placeholder that creates nothing.
createNewSale(i, dsErr) ==
    /\ sched[i].pc = "ticker"
    /\ clock >= sched[i].timer
    /\ LET startTime == Truncate(clock)
           res == InsertSale(sales, NewSale(idSeq + 1, startTime), dsErr)
       IN  /\ idSeq' = idSeq + 1
           /\ sales' = res.sales
           /\ sched' = [sched EXCEPT ![i].timer = @ + WindowLen,
                                     ![i].saleID = idSeq + 1,
                                     ![i].startTime = startTime,
                                     ![i].err = res.err]
    /\ UNCHANGED <<pvars, rvars, cvars, lvars, clock, items, coSales>>

\* A timer of instance i is due.
TimerDue(i) ==
    sched[i].pc \in {"wait", "loop", "ticker"} /\ clock >= sched[i].timer

\* The cleanup ticker of instance i is due.
CleanupDue(i) ==
    sched[i].pc = "loop" /\ clock >= sched[i].cleanupTimer

\* Instance i is at a select whose context is done.
StopDue(i) == sched[i].pc \in {"wait", "loop"} /\ sched[i].cancelled

\* Instance i is inside Start's check or inside createNewSale.
InCall(i) == sched[i].pc \in {"startup", "sale", "items", "redis"}

\* A quarter hour passes; an hourly timer that is due is served at most
\* MaxLate late, a cleanup tick and a done context within their quarter
\* hour, and the calls to the store and the coordinator return within the
\* quarter hour.  cleanupErr is what the cleanup of the running quarter hour
\* returned.
Advance ==
    /\ clock < MaxClock
    /\ \A i \in Instances : TimerDue(i) => clock - sched[i].timer < MaxLate
    /\ \A i \in Instances : ~CleanupDue(i) /\ ~InCall(i) /\ ~StopDue(i)
    /\ clock' = clock + 1
    /\ sched' = [i \in Instances |-> [sched[i] EXCEPT !.cleanupErr = ""]]
    /\ UNCHANGED <<pvars, rvars, cvars, lvars, sales, items, coSales, idSeq>>

(***************************************************************************)
(* The purchase path across a rollover: the sales follow one another, each *)
(* with its own inventory counter (`sale:{sale_id}:inventory`) and its own *)
(* items; a code issued under one sale may be redeemed after the next sale *)
(* has been created.                                                       *)
(***************************************************************************)
Sales == 1..MaxSales

RolloverReqs == 1..MaxRolloverReqs

\* The items generateItems creates for a sale.
ItemsOf(sale) == {(sale - 1) * ItemsPerSale + k : k \in Items}

\* models.Item.SaleID: the sale an item was generated for.
SaleOf(itemID) == ((itemID - 1) \div ItemsPerSale) + 1

\* The sale whose sale-active flag is set: the last one created.
ActiveSale == Len(counters)

\* The counter a decrement hits: the one of the sale that is active now.
CounterOfActiveSale(itemID) == ActiveSale

\* The counter a decrement hits: the one of the sale under which the code
\* was issued, which is the sale of the session's item.
CounterOf(itemID) == SaleOf(itemID)

RolloverUsedUsers ==
    {roSessions[c].userID : c \in Codes} \cup {roReq[r].userID : r \in RolloverReqs}

RolloverUsedItems ==
    {roSessions[c].itemID : c \in Codes} \cup {roReq[r].itemID : r \in RolloverReqs}

\* CheckoutHandler: the item belongs to the active sale.
RolloverCheckout(u, i) ==
    /\ roMinted < MaxCodes
    /\ Canonical(u, RolloverUsedUsers, Users)
    /\ i \in ItemsOf(ActiveSale)
    /\ Canonical(i, RolloverUsedItems \cap ItemsOf(ActiveSale), ItemsOf(ActiveSale))
    /\ roMinted' = roMinted + 1
    /\ roSessions' = [roSessions EXCEPT ![roMinted + 1] =
          [userID |-> u, itemID |-> i, ttl |-> SessionTTL]]
    /\ UNCHANGED <<pvars, svars, cvars, lvars, counters, roReq>>

\* Scheduler.createNewSale, redis.InitializeSale: the counter of the next
\* sale is set to Q and the sale becomes the active one.
Rollover ==
    /\ ActiveSale < MaxSales
    /\ counters' = Append(counters, ItemsPerSale)
    /\ UNCHANGED <<pvars, svars, cvars, lvars, roSessions, roMinted, roReq>>

RolloverNextRequest(r) ==
    /\ roReq[r].pc = "idle"
    /\ IF r = 1 THEN TRUE ELSE roReq[r - 1].pc # "idle"

RolloverRequestCodes == {NoCode, UnknownCode} \cup {c \in Codes : c <= roMinted}

RolloverPurchaseLookup(r, code) ==
    /\ RolloverNextRequest(r)
    /\ roReq' = [roReq EXCEPT ![r] =
          AfterLookup([@ EXCEPT !.checkoutCode = code], LookupSession(roSessions, code))]
    /\ UNCHANGED <<pvars, svars, cvars, lvars, counters, roSessions, roMinted>>

RolloverPurchaseDecrement(r, coErr) ==
    /\ roReq[r].pc = "session"
    /\ LET sale == CounterOf(roReq[r].itemID)
           d == DecrementInventory(counters[sale], roReq[r].itemID, coErr)
           p == recordPurchase({}, roReq[r].userID, roReq[r].itemID)
       IN  /\ counters' = [counters EXCEPT ![sale] = d.inventory]
           /\ roReq' = [roReq EXCEPT ![r] = AfterDecrement(@, d, p)]
    /\ UNCHANGED <<pvars, svars, cvars, lvars, roSessions, roMinted>>

\* A quarter hour passes.
RolloverTick ==
    /\ roSessions' = ExpireKeys(roSessions)
    /\ UNCHANGED <<pvars, svars, cvars, lvars, counters, roMinted, roReq>>

(***************************************************************************)
(* A race for the items of one sale: more requests than the sale has       *)
(* items, every request of its own user and with its own checkout code,    *)
(* with sessions that do not run out and a coordinator that does not fail. *)
(***************************************************************************)
RaceReqs == 1..MaxRaceReqs

RaceCodes == 1..MaxRaceReqs

\* The item user c checks out: the sale's items taken round robin.
RaceItem(c) == ((c - 1) % ItemsPerSale) + 1

\* CheckoutHandler for user c, who gets code c.
RaceCheckout(c) ==
    /\ rcSessions[c] = NoSession
    /\ rcSessions' = [rcSessions EXCEPT ![c] =
          [userID |-> c, itemID |-> RaceItem(c), ttl |-> SessionTTL]]
    /\ UNCHANGED <<pvars, svars, rvars, lvars, rcInventory, rcReq>>

\* Request r presents code r once user r holds it.
RacePurchaseLookup(r) ==
    /\ rcReq[r].pc = "idle"
    /\ rcSessions[r] # NoSession
    /\ rcReq' = [rcReq EXCEPT ![r] =
          AfterLookup([@ EXCEPT !.checkoutCode = r], LookupSession(rcSessions, r))]
    /\ UNCHANGED <<pvars, svars, rvars, lvars, rcInventory, rcSessions>>

RacePurchaseDecrement(r) ==
    /\ rcReq[r].pc = "session"
    /\ LET d == DecrementInventory(rcInventory, rcReq[r].itemID, FALSE)
           p == recordPurchase({}, rcReq[r].userID, rcReq[r].itemID)
       IN  /\ rcInventory' = d.inventory
           /\ rcReq' = [rcReq EXCEPT ![r] = AfterDecrement(@, d, p)]
    /\ UNCHANGED <<pvars, svars, rvars, lvars, rcSessions>>

(***************************************************************************)
(* Rate limiter (package middleware): RateLimiter.Allow under its mutex,   *)
(* called by RateLimitMiddleware with the request's remote address as key. *)
(* The clock counts ticks, TicksPerSecond to the second.  The elapsed      *)
(* seconds times rate stay far below the width of int for any duration     *)
(* time.Duration can hold, so the product is the mathematical one.         *)
(***************************************************************************)
Clients == 1..MaxClients

\* make(map[string]int), make(map[string]time.Time)
EmptyMap == [k \in {} |-> 0]

NoCall == [client |-> 0, allowed |-> FALSE]

\* m[key] of a Go map: the zero value for a key that is not in the map.
MapGet(m, key) == IF key \in DOMAIN m THEN m[key] ELSE 0

\* m[key] = v
MapSet(m, key, v) == [k \in DOMAIN m \cup {key} |-> IF k = key THEN v ELSE m[k]]

minUnclamped(a, b) == a

min(a, b) == IF a < b THEN a ELSE b

\* int(now.Sub(lastRefill).Seconds()) * rl.rate
tokensToAdd(t, last) == ((t - last) \div TicksPerSecond) * Rate

\* RateLimiter.Allow(key) at instant t on the maps tk and lr: the maps
\* after the call and the value returned.
Allow(tk, lr, key, t) ==
    IF key \notin DOMAIN lr
    THEN [tokens |-> MapSet(tk, key, Burst), lastRefill |-> MapSet(lr, key, t),
          refilled |-> TRUE, ok |-> TRUE]
    ELSE LET add == tokensToAdd(t, lr[key])
             tk1 == IF add > 0 THEN MapSet(tk, key, min(MapGet(tk, key) + add, Burst))
                    ELSE tk
             lr1 == IF add > 0 THEN MapSet(lr, key, t) ELSE lr
         IN  IF MapGet(tk1, key) > 0
             THEN [tokens |-> MapSet(tk1, key, MapGet(tk1, key) - 1),
                   lastRefill |-> lr1, refilled |-> add > 0, ok |-> TRUE]
             ELSE [tokens |-> tk1, lastRefill |-> lr1, refilled |-> add > 0,
                   ok |-> FALSE]

\* r.RemoteAddr
RemoteAddrShared(client) == Least(Clients)

RemoteAddr(client) == client

\* Clients appear in order.
NextClient(client) ==
    client = 1 \/ RemoteAddr(client) \in DOMAIN lastRefill
               \/ RemoteAddr(client - 1) \in DOMAIN lastRefill

\* RateLimitMiddleware: a request of the client; 429 unless Allow says yes.
RateLimitMiddleware(client) ==
    /\ NextClient(client)
    /\ LET key == RemoteAddr(client)
           a == Allow(tokens, lastRefill, key, now)
       IN  /\ tokens' = a.tokens
           /\ lastRefill' = a.lastRefill
           /\ granted' = MapSet(granted, key,
                 (IF a.refilled THEN 0 ELSE MapGet(granted, key))
                    + (IF a.ok THEN 1 ELSE 0))
           /\ lastCall' = [client |-> client, allowed |-> a.ok]
    /\ now' = now
    /\ UNCHANGED <<pvars, svars, rvars, cvars>>

\* A tick of the rate limiter's clock passes.
LimiterTick ==
    /\ now < MaxTime
    /\ now' = now + 1
    /\ UNCHANGED <<pvars, svars, rvars, cvars, tokens, lastRefill, granted, lastCall>>

(***************************************************************************)
(* The purchase path: one running sale whose inventory counter the         *)
(* scheduler has set to Q, no session, no purchase, no request yet.        *)
(***************************************************************************)
vars == <<pvars, svars, rvars, cvars, lvars>>

PurchaseInit ==
    /\ inventory = ItemsPerSale
    /\ userCount = [u \in Users |-> 0]
    /\ sessions = [c \in Codes |-> NoSession]
    /\ minted = 0
    /\ purchases = {}
    /\ req = [r \in Reqs |-> IdleReq]

\* The scheduler: an empty store, no instance started.
SchedInit ==
    /\ clock = 0
    /\ sales = {}
    /\ items = {}
    /\ coSales = {}
    /\ idSeq = 0
    /\ sched = [i \in Instances |-> OffSched]

\* Across a rollover: the first sale runs, no session, no request yet.
RolloverInit ==
    /\ counters = <<ItemsPerSale>>
    /\ roSessions = [c \in Codes |-> NoSession]
    /\ roMinted = 0
    /\ roReq = [r \in RolloverReqs |-> IdleReq]

\* A race: the sale runs with its Q items, no session, no request yet.
RaceInit ==
    /\ rcInventory = ItemsPerSale
    /\ rcSessions = [c \in RaceCodes |-> NoSession]
    /\ rcReq = [r \in RaceReqs |-> IdleReq]

\* NewRateLimiter: both maps empty.
NewRateLimiter ==
    /\ tokens = EmptyMap
    /\ lastRefill = EmptyMap
    /\ now = 0
    /\ granted = EmptyMap
    /\ lastCall = NoCall

Init == PurchaseInit /\ SchedInit /\ RolloverInit /\ RaceInit /\ NewRateLimiter

Next ==
    \/ \E u \in Users, i \in Items : Checkout(u, i)
    \/ \E r \in Reqs, code \in RequestCodes : PurchaseLookup(r, code)
    \/ \E r \in Reqs, coErr \in BOOLEAN : PurchaseDecrement(r, coErr)
    \/ Tick

Spec == Init /\ [][Next]_vars

\* net/http runs every handler on its own goroutine, and the Go scheduler
\* lets a goroutine whose coordinator call has returned run on.
FairSpec ==
    /\ Spec
    /\ \A r \in Reqs : WF_vars(PurchaseDecrement(r, FALSE))

SchedNext ==
    \/ \E i \in Instances : Start(i)
    \/ \E i \in Instances, dsErr \in BOOLEAN : StartCheck(i, dsErr)
    \/ \E i \in Instances, dsErr \in BOOLEAN : CreateSale(i, dsErr)
    \/ \E i \in Instances, dsErr \in BOOLEAN : CreateItems(i, dsErr)
    \/ \E i \in Instances, coErr \in BOOLEAN : InitializeSale(i, coErr)
    \/ \E i \in Instances : WaitDone(i)
    \/ \E i \in Instances : HourlyTick(i)
    \/ \E i \in Instances, coErr \in BOOLEAN : CleanupTick(i, coErr)
    \/ \E i \in Instances : StartScheduler(i)
    \/ \E i \in Instances, dsErr \in BOOLEAN : createNewSale(i, dsErr)
    \/ Advance

SchedSpec == Init /\ [][SchedNext]_vars

\* One scheduler whose caller may cancel the context it passed to Start.
CancelInstances == {1}

CancelNext ==
    \/ \E i \in CancelInstances : Start(i)
    \/ \E i \in CancelInstances, dsErr \in BOOLEAN : StartCheck(i, dsErr)
    \/ \E i \in CancelInstances, dsErr \in BOOLEAN : CreateSale(i, dsErr)
    \/ \E i \in CancelInstances, dsErr \in BOOLEAN : CreateItems(i, dsErr)
    \/ \E i \in CancelInstances, coErr \in BOOLEAN : InitializeSale(i, coErr)
    \/ \E i \in CancelInstances : WaitDone(i)
    \/ \E i \in CancelInstances : HourlyTick(i)
    \/ \E i \in CancelInstances, coErr \in BOOLEAN : CleanupTick(i, coErr)
    \/ \E i \in CancelInstances : Cancel(i)
    \/ \E i \in CancelInstances : Stop(i)
    \/ Advance

\* Start runs on a goroutine of its own: a select with a ready case goes
\* on, and a call to the store or the coordinator returns.
CancelSpec ==
    /\ Init /\ [][CancelNext]_vars
    /\ \A i \in CancelInstances :
          /\ WF_vars(Stop(i))
          /\ WF_vars(\E dsErr \in BOOLEAN : CreateSale(i, dsErr))
          /\ WF_vars(\E dsErr \in BOOLEAN : CreateItems(i, dsErr))
          /\ WF_vars(\E coErr \in BOOLEAN : InitializeSale(i, coErr))

RolloverNext ==
    \/ \E u \in Users, i \in 1..(MaxSales * ItemsPerSale) : RolloverCheckout(u, i)
    \/ Rollover
    \/ \E r \in RolloverReqs, code \in RolloverRequestCodes :
          RolloverPurchaseLookup(r, code)
    \/ \E r \in RolloverReqs, coErr \in BOOLEAN : RolloverPurchaseDecrement(r, coErr)
    \/ RolloverTick

RolloverSpec == Init /\ [][RolloverNext]_vars

RaceNext ==
    \/ \E c \in RaceCodes : RaceCheckout(c)
    \/ \E r \in RaceReqs : RacePurchaseLookup(r)
    \/ \E r \in RaceReqs : RacePurchaseDecrement(r)

RaceSpec == Init /\ [][RaceNext]_vars

LimiterNext ==
    \/ \E client \in Clients : RateLimitMiddleware(client)
    \/ LimiterTick

LimiterSpec == Init /\ [][LimiterNext]_vars

(***************************************************************************)
(* The vocabulary of the claims.                                           *)
(***************************************************************************)
Answered(r) == req[r].pc = "done"

Succeeded(r) == Answered(r) /\ req[r].status = 200

Successes == {r \in Reqs : Succeeded(r)}

\* The successful purchases of user u, and those made with code c.
UserPurchases(u) == {r \in Successes : req[r].userID = u}

CodePurchases(c) == {r \in Successes : req[r].checkoutCode = c}

\* The code was issued and its session key has run out.
Expired(c) == c <= minted /\ sessions[c] = NoSession

\* Request r is answered in this step.
Completes(r) == req[r].pc # "done" /\ req'[r].pc = "done"

\* Request r is received in this step, carrying code c.
Called(r, c) ==
    req[r].pc = "idle" /\ req'[r].pc # "idle" /\ req'[r].checkoutCode = c

InvalidOrExpiredCode(q) == q.status = 400 /\ q.body = MsgInvalid

CoordinatorUntouched ==
    inventory' = inventory /\ userCount' = userCount /\ purchases' = purchases

(***************************************************************************)
(* C1.  No oversell: in every reachable state, under any interleaving of   *)
(* the requests, the successful purchases of the sale, and the rows of     *)
(* table purchases, number at most Q.                                      *)
(***************************************************************************)
C1_NoOversell ==
    /\ Cardinality(Successes) <= ItemsPerSale
    /\ Cardinality(purchases) <= ItemsPerSale

\* Q purchases have succeeded and a further request was turned away.
C1_Witness ==
    /\ Cardinality(Successes) = ItemsPerSale
    /\ \E r \in Reqs : Answered(r) /\ req[r].status = 409

(***************************************************************************)
(* C2.  No over-quota per user: no user has more than C successful         *)
(* purchases in the sale, also when the user holds more than C codes and   *)
(* redeems each of them.  Stated on the distinct codes a user redeemed.    *)
(***************************************************************************)
C2_NoOverQuota ==
    \A u \in Users :
        Cardinality({req[r].checkoutCode : r \in UserPurchases(u)}) <= UserLimit

(***************************************************************************)
(* C3.  Code single-use: a checkout code results in at most one            *)
(* successful purchase (and so in at most one inventory decrement).        *)
(***************************************************************************)
C3_CodeSingleUse ==
    \A c \in Codes : Cardinality(CodePurchases(c)) <= 1

(***************************************************************************)
(* C4.  Concurrent redemption of one code: when two requests with the      *)
(* same live code are in flight together while inventory remains and the   *)
(* user is below the cap, then, once the coordinator has answered both,    *)
(* exactly one has succeeded and the other got InvalidOrExpiredCode.       *)
(***************************************************************************)
Racing(r1, r2) ==
    /\ req[r1].pc = "session" /\ req[r2].pc = "session"
    /\ req[r1].checkoutCode = req[r2].checkoutCode
    /\ inventory > 0
    /\ Cardinality(UserPurchases(req[r1].userID)) < UserLimit

BothAnswered(r1, r2) ==
    /\ Answered(r1) /\ Answered(r2)
    /\ req[r1].body # MsgError /\ req[r2].body # MsgError

OneWins(r1, r2) ==
    \/ Succeeded(r1) /\ InvalidOrExpiredCode(req[r2])
    \/ Succeeded(r2) /\ InvalidOrExpiredCode(req[r1])

C4_ConcurrentSameCode ==
    \A r1, r2 \in Reqs :
        r1 < r2 => [](Racing(r1, r2) => [](BothAnswered(r1, r2) => OneWins(r1, r2)))

(***************************************************************************)
(* C5.  The redemption is one indivisible step: while a request is between *)
(* its session lookup and its inventory decrement, no other request looks  *)
(* up the same session or touches the same inventory counter.              *)
(***************************************************************************)
\* Request r2 runs a coordinator operation in this step on a key of r1's
\* redemption: the session of r1's code, or the sale's inventory counter.
Interferes(r2, r1) ==
    \/ Called(r2, req[r1].checkoutCode)
    \/ req[r2].pc = "session" /\ req'[r2].pc # "session"

C5_RedemptionIndivisible ==
    [][\A r1, r2 \in Reqs :
          (r1 # r2 /\ req[r1].pc = "session") => ~Interferes(r2, r1)]_vars

(***************************************************************************)
(* C6.  Every successful purchase has its durable row, with the session's  *)
(* user, item and code, and a purchase_id no other purchase has; and every *)
(* row has its inventory decrement.                                        *)
(***************************************************************************)
C6_SuccessIsDurable ==
    /\ \A r \in Successes :
          \E p \in purchases :
              /\ p.purchaseID = req[r].purchaseID
              /\ p.userID = req[r].userID
              /\ p.itemID = req[r].itemID
              /\ p.checkoutCode = req[r].checkoutCode
    /\ \A r1, r2 \in Successes : r1 # r2 => req[r1].purchaseID # req[r2].purchaseID
    /\ Cardinality(purchases) <= ItemsPerSale - inventory

(***************************************************************************)
(* C7.  Session expiry: a request whose code was issued and has outlived   *)
(* T_session is answered InvalidOrExpiredCode, and the inventory counter,  *)
(* the user counters and the purchases stay as they are.                   *)
(***************************************************************************)
C7_SessionExpiry ==
    [][\A r \in Reqs, c \in Codes :
          (Called(r, c) /\ Expired(c)) =>
              /\ Answered(r)'
              /\ InvalidOrExpiredCode(req'[r])
              /\ CoordinatorUntouched]_vars

\* A request with an expired code was turned away with the sale untouched.
C7_Witness ==
    \E r \in Reqs :
        /\ Answered(r) /\ InvalidOrExpiredCode(req[r])
        /\ req[r].checkoutCode \in Codes /\ Expired(req[r].checkoutCode)
        /\ inventory = ItemsPerSale

(***************************************************************************)
(* C8.  Saturation: once Q purchases have succeeded, the inventory counter *)
(* is 0 and stays 0, no further purchase is recorded, no request succeeds, *)
(* and every request the coordinator answers at the decrement is rejected  *)
(* with SoldOut (409).                                                     *)
(***************************************************************************)
C8_Saturation ==
    [][Cardinality(Successes) = ItemsPerSale =>
          /\ inventory = 0 /\ inventory' = 0
          /\ purchases' = purchases
          /\ \A r \in Reqs :
                Completes(r) =>
                    /\ req'[r].status # 200
                    /\ (req[r].pc = "session" /\ req'[r].body # MsgError) =>
                           (req'[r].status = 409 /\ req'[r].body = MsgSoldOut)]_vars

\* The sale is sold out and a later request got 409.
C8_Witness ==
    /\ Cardinality(Successes) = ItemsPerSale
    /\ inventory = 0
    /\ \E r \in Reqs :
          /\ Answered(r) /\ req[r].status = 409 /\ req[r].body = MsgSoldOut
          /\ \A r2 \in Successes : r2 < r

(***************************************************************************)
(* C9.  A request with a live code whose user already has C successful     *)
(* purchases (what the per-sale counter counts) is answered                *)
(* UserLimitExceeded (403), and nothing is mutated.                        *)
(***************************************************************************)
C9_UserLimitExceeded ==
    [][\A r \in Reqs :
          (/\ req[r].pc = "session"
           /\ Cardinality(UserPurchases(req[r].userID)) >= UserLimit
           /\ Completes(r)
           /\ req'[r].body # MsgError) =>
              /\ req'[r].status = 403
              /\ CoordinatorUntouched
              /\ sessions' = sessions]_vars

(***************************************************************************)
(* Vocabulary of the scheduler claims.                                     *)
(***************************************************************************)
\* The start of the window that holds instant t.
WindowOf(t) == (t \div WindowLen) * WindowLen

WindowStarts == {w \in 0..MaxClock : WindowOf(w) = w}

\* The active rows of table sales that fall in the window starting at w.
ActiveRows(w) ==
    {s \in sales : s.status = "active" /\ WindowOf(s.startTime) = w}

\* Instance i ran a sale creation for window w whose insert went through or
\* was turned down by the store as a duplicate.
CreatedFor(i, w) ==
    /\ sched[i].saleID # 0
    /\ WindowOf(sched[i].startTime) = w
    /\ \/ sched[i].pc \in {"items", "redis"}
       \/ sched[i].pc \in {"wait", "loop", "ticker", "stopped"}
          /\ sched[i].err \in {"", "conflict"}

(***************************************************************************)
(* C10.  Idempotent sale creation: however many sale creations run for one *)
(* window (several scheduler instances, either entry point, a tick that    *)
(* repeats within the window), table sales never holds two active rows of  *)
(* that window, and it holds exactly one as soon as one of the creations   *)
(* got its insert through or was turned down as a duplicate.               *)
(***************************************************************************)
C10_IdempotentSaleCreation ==
    \A w \in WindowStarts :
        /\ Cardinality(ActiveRows(w)) <= 1
        /\ (\E i \in Instances : CreatedFor(i, w)) =>
               Cardinality(ActiveRows(w)) = 1

\* Both entry points ran a creation for the same window: one inserted the
\* row, the other was turned down, and the window has its one active row.
C10_Witness ==
    \E i, j \in Instances, w \in WindowStarts :
        /\ sched[i].pc = "ticker" /\ sched[j].ret # ""
        /\ CreatedFor(i, w) /\ CreatedFor(j, w)
        /\ {sched[i].err, sched[j].err} = {"", "conflict"}
        /\ sched[j].pc \in {"wait", "loop"}
        /\ Cardinality(ActiveRows(w)) = 1

\* The rows of table sales whose status is active.
ActiveSales == {s \in sales : s.status = "active"}

(***************************************************************************)
(* C11.  Once the scheduler has created its first sale, exactly one sale   *)
(* has status active: a sale of an earlier window is no longer active when *)
(* the sale of a new window exists.                                        *)
(***************************************************************************)
C11_ExactlyOneActive ==
    sales # {} => Cardinality(ActiveSales) = 1

\* The last hour boundary that instance i, waiting for its hourly ticker,
\* has reached while running.  Start's ticker is created on the first
\* boundary after startup and its next tick is due at timer; StartScheduler's
\* ticker was created less than an hour before the boundary that precedes
\* its next tick.
LastBoundary(i) ==
    IF sched[i].pc = "loop" THEN WindowOf(sched[i].timer - WindowLen)
    ELSE WindowOf(sched[i].timer)

\* Instance i waits for its hourly ticker, no tick is pending, and its last
\* sale creation did not fail.
Idle(i) ==
    /\ sched[i].pc \in {"loop", "ticker"}
    /\ ~TimerDue(i)
    /\ sched[i].err \in {"", "conflict"}

(***************************************************************************)
(* C12.  On each window boundary after startup the next sale is created:   *)
(* for every hour boundary B that a running scheduler has reached, the     *)
(* first one after startup included, the sale with window [B, B+W) exists  *)
(* once the clock has passed B by more than the lateness of a tick and the *)
(* scheduler, whose creations did not fail, has no tick pending.           *)
(***************************************************************************)
C12_SaleOnEachBoundary ==
    \A i \in Instances :
        (Idle(i) /\ clock > LastBoundary(i) + MaxLate) =>
            \E s \in sales : s.startTime = LastBoundary(i)

\* The active sales of table tbl whose window holds instant t.
Covering(tbl, t) ==
    {s \in tbl : s.status = "active" /\ s.startTime <= t /\ t < s.endTime}

\* This step completes the startup of instance i: Start goes on to wait for
\* the hour boundary, or StartScheduler returns to main.
StartupCompletes(i) ==
    \/ sched[i].pc \in {"startup", "sale", "items", "redis"} /\ sched'[i].pc = "wait"
    \/ sched[i].pc = "off" /\ sched'[i].pc = "ticker"

(***************************************************************************)
(* C13.  When the startup of a scheduler completes, exactly one active     *)
(* sale covers the current instant: the one found and adopted, or the one  *)
(* created because none was found.                                         *)
(***************************************************************************)
C13_StartupCreatesOrAdopts ==
    [][\A i \in Instances :
          StartupCompletes(i) => Cardinality(Covering(sales', clock')) = 1]_vars

\* Some instance is inside the creation of sale id, past the insert of its
\* row.
InCreation(id) ==
    \E i \in Instances : sched[i].pc \in {"items", "redis"} /\ sched[i].saleID = id

(***************************************************************************)
(* C14.  A sale whose creation failed after its row was inserted is marked *)
(* cancelled: every sale with status active whose creation is over has its *)
(* Q items in the store and its inventory counter in the coordinator.      *)
(***************************************************************************)
C14_PartialSaleCancelled ==
    \A s \in sales :
        (s.status = "active" /\ ~InCreation(s.saleID)) =>
            (s.saleID \in items /\ s.saleID \in coSales)

(***************************************************************************)
(* C15.  Monotone inventory: from the initialisation of the sale's counter *)
(* to Q until rollover, no step of a checkout or of a purchase, whatever   *)
(* its outcome, takes the counter from one value to a greater one.         *)
(***************************************************************************)
C15_MonotoneInventory ==
    [][inventory' <= inventory /\ inventory' <= ItemsPerSale]_vars

\* The counter has gone down, and a purchase that the coordinator failed
\* has left it alone.
C15_Witness ==
    /\ inventory < ItemsPerSale
    /\ \E r \in Reqs : Answered(r) /\ req[r].body = MsgError
    /\ \E r \in Reqs : Succeeded(r)

(***************************************************************************)
(* C17.  At most one sale per item: no two purchases of the sale are for   *)
(* the same item; in particular, when two users hold live codes for one    *)
(* item and redeem them while inventory remains, they do not both buy it.  *)
(***************************************************************************)
C17_OneSalePerItem ==
    \A r1, r2 \in Successes :
        req[r1].userID # req[r2].userID => req[r1].itemID # req[r2].itemID

(***************************************************************************)
(* C19.  POST /purchase maps each outcome to a fixed status: 400 for a     *)
(* missing code and for InvalidOrExpiredCode, 409 for SoldOut, 503 for a   *)
(* failure of the coordinator or of the store, 200 for a success; 403      *)
(* (UserLimitExceeded) is the only other status an answer may carry.       *)
(***************************************************************************)
C19_StatusMapping ==
    \A r \in Reqs :
        Answered(r) =>
            /\ req[r].status \in {200, 400, 403, 409, 503}
            /\ req[r].body \in {MsgMissing, MsgInvalid} => req[r].status = 400
            /\ req[r].body = MsgSoldOut => req[r].status = 409
            /\ req[r].body \in {MsgError, MsgRecord} => req[r].status = 503
            /\ req[r].body = MsgSuccess => req[r].status = 200

\* Request r was answered SoldOut.
AnsweredSoldOut(r) ==
    Answered(r) /\ req[r].status = SoldOutStatus /\ req[r].body = MsgSoldOut

(***************************************************************************)
(* C20.  The inventory counter is never negative, whatever the             *)
(* interleaving of the requests: a decrement attempted on a counter at 0   *)
(* leaves it at 0 and is answered SoldOut.                                 *)
(***************************************************************************)
C20_InventoryNeverNegative ==
    /\ inventory >= 0
    /\ (\E r \in Reqs : AnsweredSoldOut(r)) => inventory = 0

\* Requests raced for the last items: one that found its session first was
\* overtaken by the purchases that took the counter to 0 and was answered
\* SoldOut.
C20_Witness ==
    /\ inventory = 0
    /\ \E r1, r2 \in Reqs :
          r1 < r2 /\ AnsweredSoldOut(r1) /\ Succeeded(r2)

\* This step answers request r of the rollover requests.
RolloverCompletes(r) == roReq[r].pc = "session" /\ roReq'[r].pc = "done"

Quiescent == \A r \in Reqs : req[r].pc # "session"

(***************************************************************************)
(* C21.  Per-user counter: whenever no purchase is in flight, the counter  *)
(* of every user equals the number of that user's successful purchases in  *)
(* the sale, and lies within 0..C.                                         *)
(***************************************************************************)
C21_CounterMatchesPurchases ==
    Quiescent =>
        \A u \in Users :
            /\ userCount[u] = Cardinality(UserPurchases(u))
            /\ userCount[u] \in 0..UserLimit

(***************************************************************************)
(* C22.  Validation precedes mutation: a purchase request with an empty    *)
(* code, or with a code that has no session, is answered with HTTP 400 in  *)
(* the step that takes it up, and the inventory counter, the user          *)
(* counters, the sessions and the purchases stay as they are.              *)
(***************************************************************************)
C22_ValidationPrecedesMutation ==
    [][\A r \in Reqs, c \in {NoCode, UnknownCode} \cup Codes :
          (Called(r, c) /\ (c \in Codes => sessions[c] = NoSession)) =>
              /\ Answered(r)'
              /\ req'[r].status = 400
              /\ CoordinatorUntouched
              /\ sessions' = sessions]_vars

\* After a purchase went through, a request without a code and a request
\* with a code nobody issued were both answered 400, and the sale shows
\* the one purchase only.
C22_Witness ==
    \E r1, r2, r3 \in Reqs :
        /\ Succeeded(r1)
        /\ Answered(r2) /\ req[r2].checkoutCode = NoCode
        /\ req[r2].status = 400 /\ req[r2].body = MsgMissing
        /\ Answered(r3) /\ req[r3].checkoutCode = UnknownCode
        /\ req[r3].status = 400 /\ req[r3].body = MsgInvalid
        /\ inventory = ItemsPerSale - 1

\* The requests of the race that have been taken up, and those of them
\* that were answered 200.
RaceStarted == {r \in RaceReqs : rcReq[r].pc # "idle"}

RaceSucceeded == {r \in RaceStarted : rcReq[r].pc = "done" /\ rcReq[r].status = 200}

RaceSoldOut(r) ==
    rcReq[r].pc = "done" /\ rcReq[r].status = 409 /\ rcReq[r].body = MsgSoldOut

Min(a, b) == IF a <= b THEN a ELSE b

(***************************************************************************)
(* C23.  Progress under contention: of N concurrent requests with distinct *)
(* valid codes of users below the cap, against a sale with Q items and     *)
(* with no failure, exactly min(Q, N) succeed and the others are answered  *)
(* SoldOut; no request is answered SoldOut while inventory remains.        *)
(***************************************************************************)
C23_ProgressUnderContention ==
    /\ \A r \in RaceReqs : RaceSoldOut(r) => rcInventory = 0
    /\ (\A r \in RaceStarted : rcReq[r].pc = "done") =>
          /\ Cardinality(RaceSucceeded) = Min(ItemsPerSale, Cardinality(RaceStarted))
          /\ \A r \in RaceStarted \ RaceSucceeded : RaceSoldOut(r)

\* More requests than items raced: Q of them succeeded, the others were
\* answered SoldOut.
C23_Witness ==
    /\ Cardinality(RaceStarted) > ItemsPerSale
    /\ \A r \in RaceStarted : rcReq[r].pc = "done"
    /\ Cardinality(RaceSucceeded) = ItemsPerSale
    /\ \E r \in RaceStarted : RaceSoldOut(r)

\* Instance i serves a tick of its cleanup ticker in this step.
CleanupRuns(i) ==
    /\ sched[i].pc = "loop" /\ sched'[i].pc = "loop"
    /\ sched'[i].cleanupTimer # sched[i].cleanupTimer

(***************************************************************************)
(* C24.  Cleanup cadence: on every tick of the cleanup ticker the          *)
(* scheduler marks every sale whose window ended before now as completed.  *)
(***************************************************************************)
C24_CleanupCompletesSales ==
    [][\A i \in Instances :
          CleanupRuns(i) =>
              \A s \in sales' : s.endTime < clock => s.status = "completed"]_vars

\* The store or coordinator call that ends createNewSale returns in this
\* step with an error, to the main loop of instance i.
CreationFailsInLoop(i) ==
    /\ sched[i].pc \in {"sale", "items", "redis"} /\ sched[i].ret = "loop"
    /\ sched'[i].pc \notin {"sale", "items", "redis"}
    /\ sched'[i].err # ""

\* The cleanup that instance i runs in this step returns an error.
CleanupFails(i) ==
    /\ sched[i].pc = "loop"
    /\ sched'[i].cleanupTimer # sched[i].cleanupTimer
    /\ sched'[i].cleanupErr # ""

(***************************************************************************)
(* C25.  Errors do not stop the loop: when a sale creation or a cleanup    *)
(* fails in the main loop, the scheduler is in its main loop again after   *)
(* the step, with the hourly ticker and the cleanup ticker armed as they   *)
(* were, so that the next hourly tick starts a creation again.             *)
(***************************************************************************)
C25_ErrorsDoNotStopTheLoop ==
    [][\A i \in Instances :
          /\ CreationFailsInLoop(i) =>
                /\ sched'[i].pc = "loop"
                /\ sched'[i].timer = sched[i].timer
                /\ sched'[i].timer > Truncate(clock)
                /\ sched'[i].cleanupTimer = sched[i].cleanupTimer
          /\ CleanupFails(i) =>
                /\ sched'[i].pc = "loop"
                /\ sched'[i].timer = sched[i].timer
                /\ sched'[i].cleanupTimer = sched[i].cleanupTimer + CleanupPeriod]_vars

\* A scheduler whose hourly creation failed, and whose cleanup failed after
\* that, waits in its main loop for the next hourly tick.
C25_Witness ==
    \E i \in Instances :
        /\ sched[i].pc = "loop" /\ sched[i].ret = "loop"
        /\ sched[i].err = "transient"
        /\ sched[i].cleanupErr = "transient"
        /\ sched[i].timer > clock

\* Start of instance i has returned the error of its cancelled context.
StoppedByCancel(i) == sched[i].pc = "stopped" /\ sched[i].err = "canceled"

(***************************************************************************)
(* C26.  Termination on cancel: once the context of Start is cancelled     *)
(* while Start waits for the first hour boundary or is in its main loop,   *)
(* Start returns the context's error, and from then on it stays returned:  *)
(* it starts no sale creation and runs no cleanup any more.                *)
(***************************************************************************)
C26_TerminationOnCancel ==
    \A i \in CancelInstances :
        (sched[i].cancelled /\ sched[i].pc \in {"wait", "loop"})
            ~> [](StoppedByCancel(i))

\* Start created the first sale and, in its main loop, the sale of the
\* next hour, and then returned the error of its cancelled context from
\* the select of the main loop.
C26_Witness ==
    \E i \in CancelInstances :
        /\ StoppedByCancel(i) /\ sched[i].ret = "loop"
        /\ Cardinality(sales) = 2

\* The keys the rate limiter has seen.
Keys == DOMAIN lastRefill

(***************************************************************************)
(* C27.  Token bounds: for every key the rate limiter has seen, the tokens *)
(* of the key are at least 0 and at most burst, after any sequence of      *)
(* Allow calls.                                                            *)
(***************************************************************************)
C27_TokenBounds ==
    /\ DOMAIN tokens = Keys
    /\ \A k \in Keys : 0 <= tokens[k] /\ tokens[k] <= Burst

\* One key was drained to 0 and its client turned away, while another key
\* was refilled after two seconds or more, up to burst, and gave out one token.
C27_Witness ==
    \E k1, k2 \in Keys :
        /\ k1 # k2
        /\ tokens[k1] = 0 /\ lastCall = [client |-> k1, allowed |-> FALSE]
        /\ tokens[k2] = Burst - 1 /\ granted[k2] = 1
        /\ lastRefill[k2] >= 2 * TicksPerSecond

(***************************************************************************)
(* C28.  Burst cap: among the Allow calls for a key while no refill        *)
(* occurs, counted from the key's first call or from its last refill, at   *)
(* most burst calls return true.                                           *)
(***************************************************************************)
C28_BurstCap ==
    \A k \in Keys : granted[k] <= Burst

\* The tokens credited to key k in this step: what the key holds after the
\* step, and the token the call took, less what the key held before.
Credited(k) ==
    tokens'[k] + (IF lastCall'.allowed THEN 1 ELSE 0) - tokens[k]

(***************************************************************************)
(* C29.  Time-proportional refill: whenever a refill moves the last        *)
(* credited instant of a key and the bucket does not reach burst, the      *)
(* tokens credited equal the time the instant moved by, times rate: no     *)
(* elapsed time is lost when the refill comes after a number of seconds    *)
(* that is not whole.                                                      *)
(***************************************************************************)
C29_NoElapsedTimeLost ==
    [][\A k \in Keys :
          (lastRefill'[k] # lastRefill[k] /\ tokens[k] + Credited(k) < Burst) =>
              Credited(k) * TicksPerSecond = (lastRefill'[k] - lastRefill[k]) * Rate]_vars

(***************************************************************************)
(* C30.  Per-key isolation: a request of one client changes the tokens and *)
(* the last refill of no other client's key, and a client is turned away   *)
(* only when its own key has no token left.                                *)
(***************************************************************************)
C30_PerKeyIsolation ==
    [][/\ \A k \in Keys :
             k # lastCall'.client =>
                 /\ k \in DOMAIN lastRefill' /\ lastRefill'[k] = lastRefill[k]
                 /\ k \in DOMAIN tokens' /\ tokens'[k] = tokens[k]
       /\ (lastCall' # lastCall /\ ~lastCall'.allowed) =>
             /\ lastCall'.client \in Keys
             /\ tokens[lastCall'.client] = 0]_vars

\* One client has drained its bucket and is turned away; the other client,
\* in the same second, still has every token but the one its request took.
C30_Witness ==
    \E k1, k2 \in Keys :
        /\ k1 # k2
        /\ tokens[k1] = 0 /\ granted[k1] >= Burst
        /\ lastCall = [client |-> k2, allowed |-> TRUE]
        /\ tokens[k2] = Burst - 1 /\ granted[k2] = 2
        /\ now < TicksPerSecond

====
